---- MODULE Spec2Model ----
(***************************************************************************)
(* Model of the retrieval index of ElSol-Challenge (src/app/vectorstore.py)*)
(* in both of its modes, of the two HTTP handlers that share it            *)
(* (src/app/main.py) and of transcribe_audio (src/app/audio.py).           *)
(*                                                                         *)
(* Texts are sequences of characters; a term is a sequence of lower-case   *)
(* characters.  doc_ids are strings in the code and are compared by the    *)
(* tuple sort; here they are the integers 1..MaxDocs under their usual     *)
(* order.  Floating point weights and scores are fixed-point integers with *)
(* resolution 1/Scale.                                                     *)
(***************************************************************************)
EXTENDS Integers, Sequences, FiniteSets, TLC

VARIABLES
  docs,        \* _KeywordStore.docs: doc_id -> {"payload": ...}
  term_df,     \* _KeywordStore.term_df: term -> document frequency
  doc_tokens,  \* _KeywordStore.doc_tokens: doc_id -> term -> frequency
  N,           \* _KeywordStore.N
  order,       \* the key order of doc_tokens (insertion order of the dict)
  results,     \* what the last call has returned
  last,        \* the last call begun, its arguments and what it found
  added,       \* history: the doc_ids handed to add so far
  twin,        \* a second index, given the same documents in another order
  swapped,     \* whether the index and twin have taken the step they are compared after
  running,     \* the handlers whose body is being executed
  apc,         \* the add call in progress: its position, arguments and loop state
  spc,         \* the search call in progress: its position, arguments and locals
  embeddings_deployment,  \* settings.azure_openai_embeddings_deployment
  mode,        \* VectorStore._mode
  points,      \* the vector database collection: doc_id -> vector and payload
  trace,       \* the collaborators the last call has reached, in call order
  raised,      \* the exception the last call has raised, "none" when it returned
  given,       \* history: doc_id -> arguments of the latest add_document that stored it
  transcribe_deployment,  \* settings.azure_openai_transcribe_deployment
  tpc,         \* the transcribe_audio call in progress: its position and locals
  tmp_files    \* the temporary files on disk

\* The variables of the retrieval facade and its dense adapter.
facadeVars == <<embeddings_deployment, mode, points, trace, raised, given>>

\* The variables of the transcription step.
audioVars == <<transcribe_deployment, tpc, tmp_files>>

vars ==
  <<docs, term_df, doc_tokens, N, order, results, last, added, twin, swapped,
    running, apc, spc, facadeVars, audioVars>>

\* ------------------------------------------------------------------ bounds
MaxDocs == 2

DocIds == 1..MaxDocs

\* ------------------------------------------------------------------ inputs
\* The texts handed to add_document: empty, a word repeated around
\* punctuation, two words with an upper-case one, two unrelated words.
Texts ==
  { <<>>,
    <<"a", ",", "a">>,
    <<"a", " ", "B">>,
    <<"c", " ", "d">> }

\* The texts handed to query.
Queries ==
  { <<>>,
    <<"a">>,
    <<"a", " ", "B">>,
    <<"c", " ", "d">> }

TopKs == (0 - 1)..MaxDocs

EmptyMap == [k \in {} |-> <<>>]

Metadatas == { EmptyMap }

\* ------------------------------------------------------------------ _tokenize
Lower(c) == IF c = "B" THEN "b" ELSE c

IsWordChar(c) == c \in {"a", "b", "B", "c", "d"}

\* re.findall(r"\w+", text): the maximal runs of word characters, left to
\* right; cur is the run being read.
RECURSIVE FindAll(_, _, _)
FindAll(text, i, cur) ==
  IF i > Len(text)
  THEN IF cur = <<>> THEN <<>> ELSE <<cur>>
  ELSE IF IsWordChar(text[i])
       THEN FindAll(text, i + 1, Append(cur, text[i]))
       ELSE (IF cur = <<>> THEN <<>> ELSE <<cur>>) \o FindAll(text, i + 1, <<>>)

LowerWord(w) == [i \in 1..Len(w) |-> Lower(w[i])]

_tokenize(text) ==
  LET found == FindAll(text, 1, <<>>)
  IN  [i \in 1..Len(found) |-> LowerWord(found[i])]

\* Counter(tokens): term -> number of occurrences, only for terms present.
CounterOf(tokens) ==
  LET terms == {tokens[i] : i \in 1..Len(tokens)}
  IN  [t \in terms |-> Cardinality({i \in 1..Len(tokens) : tokens[i] = t})]

\* Counter.get(term, 0) / Counter.__getitem__ on a missing key: 0, no insert.
Get(counter, term) == IF term \in DOMAIN counter THEN counter[term] ELSE 0

\* dict | dict and {**a, **b}: the right operand wins on a shared key.
Merge(a, b) ==
  [k \in DOMAIN a \cup DOMAIN b |-> IF k \in DOMAIN b THEN b[k] ELSE a[k]]

TextOnly(text) == [k \in {"text"} |-> text]

\* ------------------------------------------------------------------ _KeywordStore.add
\* Mutant of DecrementTerm: the count is decremented and never deleted.
DecrementTermKeepZero(df, term) ==
  [t \in DOMAIN df \cup {term} |-> IF t = term THEN Get(df, term) - 1 ELSE df[t]]

\* term_df[term] -= 1, then del term_df[term] when the count is <= 0.
DecrementTerm(df, term) ==
  LET c == Get(df, term) - 1
  IN  IF c <= 0
      THEN [t \in DOMAIN df \ {term} |-> df[t]]
      ELSE [t \in DOMAIN df \cup {term} |-> IF t = term THEN c ELSE df[t]]

\* term_df[term] += 1
IncrementTerm(df, term) ==
  [t \in DOMAIN df \cup {term} |-> IF t = term THEN Get(df, term) + 1 ELSE df[t]]

\* Mutant of Retract: the old terms of a replaced document are not retracted.
RetractNothing(df, terms) == df

RECURSIVE Retract(_, _)
Retract(df, terms) ==
  IF terms = {} THEN df
  ELSE LET t == CHOOSE x \in terms : TRUE
       IN  Retract(DecrementTerm(df, t), terms \ {t})

RECURSIVE Apply(_, _)
Apply(df, terms) ==
  IF terms = {} THEN df
  ELSE LET t == CHOOSE x \in terms : TRUE
       IN  Apply(IncrementTerm(df, t), terms \ {t})

\* Mutant of DfAfterAdd: a term the stored version already had is not
\* counted again.
DfAfterAddSkipShared(st, doc_id, tf) ==
  IF doc_id \in DOMAIN st.docs
  THEN Apply(Retract(st.term_df, DOMAIN st.doc_tokens[doc_id]),
             DOMAIN tf \ DOMAIN st.doc_tokens[doc_id])
  ELSE Apply(st.term_df, DOMAIN tf)

\* The DF table add() leaves: the old terms of a stored doc_id retracted
\* (lines 31-36), then the new terms applied (lines 41-42).
DfAfterAdd(st, doc_id, tf) ==
  LET retracted == IF doc_id \in DOMAIN st.docs
                   THEN Retract(st.term_df, DOMAIN st.doc_tokens[doc_id])
                   ELSE st.term_df
  IN  Apply(retracted, DOMAIN tf)

DictSet(d, k, v) == [x \in DOMAIN d \cup {k} |-> IF x = k THEN v ELSE d[x]]

\* A dict keeps its keys in order of first insertion.
OrderAfterSet(ord, k) ==
  IF \E i \in 1..Len(ord) : ord[i] = k THEN ord ELSE Append(ord, k)

\* Mutant of CorpusSize: every add counts as a new document.
CorpusSizeAppend(st, newDocs) == st.N + 1

\* Mutant of CorpusSize: the documents are counted before the new one is
\* stored.
CorpusSizeBefore(st, newDocs) == Cardinality(DOMAIN st.docs)

\* self.N = len(self.docs); st is the index before the add.
CorpusSize(st, newDocs) == Cardinality(DOMAIN newDocs)

\* Mutant of StoredPayload: the payload is stored as the caller built it.
StoredPayloadAsGiven(payload, text) == payload

\* payload | {"text": text}: the text handed to add wins over a "text" key
\* of the payload.
StoredPayload(payload, text) == Merge(payload, TextOnly(text))

\* Mutant of KwAdd: add returns after line 40 when the text has no token,
\* before the payload is stored.
KwAddSkipEmpty(st, doc_id, text, payload) ==
  LET tf == CounterOf(_tokenize(text))
      newDocs == DictSet(st.docs, doc_id, [payload |-> StoredPayload(payload, text)])
  IN  IF _tokenize(text) = <<>>
      THEN [st EXCEPT !.term_df = DfAfterAdd(st, doc_id, tf),
                      !.doc_tokens = DictSet(st.doc_tokens, doc_id, tf),
                      !.order = OrderAfterSet(st.order, doc_id)]
      ELSE [docs       |-> newDocs,
            term_df    |-> DfAfterAdd(st, doc_id, tf),
            doc_tokens |-> DictSet(st.doc_tokens, doc_id, tf),
            N          |-> CorpusSize(st, newDocs),
            order      |-> OrderAfterSet(st.order, doc_id)]

\* The index that add(doc_id, text, payload) leaves when run on index st.
\* order is the key order of doc_tokens (and of docs).
KwAdd(st, doc_id, text, payload) ==
  LET tf == CounterOf(_tokenize(text))
      newDocs == DictSet(st.docs, doc_id, [payload |-> StoredPayload(payload, text)])
  IN  [docs       |-> newDocs,
       term_df    |-> DfAfterAdd(st, doc_id, tf),
       doc_tokens |-> DictSet(st.doc_tokens, doc_id, tf),
       N          |-> CorpusSize(st, newDocs),
       order      |-> OrderAfterSet(st.order, doc_id)]

\* _KeywordStore.__init__
EmptyStore ==
  [docs |-> EmptyMap, term_df |-> EmptyMap, doc_tokens |-> EmptyMap,
   N |-> 0, order |-> <<>>]

\* ------------------------------------------------------------------ floats
\* Resolution of the fixed-point numbers that stand for the floats.
Scale == 32

\* Internal resolution of the logarithm series.
LnUnit == Scale * Scale * 8

\* z, z^3/3, z^5/5, ... of ln((1+z)/(1-z)) = 2 (z + z^3/3 + z^5/5 + ...),
\* in units of 1/LnUnit.
RECURSIVE LnSeries(_, _, _)
LnSeries(power, zz, k) ==
  IF power = 0 \/ k > 15 THEN 0
  ELSE (power \div k) + LnSeries((power * zz) \div LnUnit, zz, k + 2)

\* math.log(num / den) for 0 < den <= num, in units of 1/Scale.
LnRatio(num, den) ==
  LET z  == ((num - den) * LnUnit) \div (num + den)
      zz == (z * z) \div LnUnit
  IN  (2 * LnSeries(z, zz, 1) * Scale) \div LnUnit

\* Mutant of Idf: the unsmoothed log(N / df).
IdfUnsmoothed(n, df) ==
  IF n >= df THEN LnRatio(n, df) ELSE 0 - LnRatio(df, n)

\* math.log((1 + N) / (1 + df)) + 1.0
Idf(n, df) ==
  (IF 1 + n >= 1 + df THEN LnRatio(1 + n, 1 + df) ELSE 0 - LnRatio(1 + df, 1 + n))
  + Scale

\* math.sqrt on the fixed-point product: the largest r with r * r <= x.
RECURSIVE SqrtBetween(_, _, _)
SqrtBetween(x, lo, hi) ==
  IF lo >= hi THEN lo
  ELSE LET mid == (lo + hi + 1) \div 2
       IN  IF mid * mid <= x THEN SqrtBetween(x, mid, hi)
           ELSE SqrtBetween(x, lo, mid - 1)

Sqrt(x) == SqrtBetween(x, 0, 46340)

RECURSIVE SumOver(_, _)
SumOver(f, keys) ==
  IF keys = {} THEN 0
  ELSE LET k == CHOOSE x \in keys : TRUE
       IN  f[k] + SumOver(f, keys \ {k})

\* ------------------------------------------------------------------ _tfidf_vec, _cosine
\* Terms whose DF is 0, and every term when N is 0, are skipped.
TfidfVec(df, n, tf) ==
  LET kept == {t \in DOMAIN tf : ~(Get(df, t) = 0 \/ n = 0)}
  IN  [t \in kept |-> tf[t] * Idf(n, Get(df, t))]

Cosine(a, b) ==
  IF DOMAIN a = {} \/ DOMAIN b = {} THEN 0
  ELSE LET shared == DOMAIN a \cap DOMAIN b
           dot == SumOver([k \in shared |-> a[k] * b[k]], shared)
           na  == SumOver([k \in DOMAIN a |-> a[k] * a[k]], DOMAIN a)
           nb  == SumOver([k \in DOMAIN b |-> b[k] * b[k]], DOMAIN b)
       IN  IF na = 0 \/ nb = 0 THEN 0
           ELSE (dot * Scale * Scale) \div Sqrt(na * nb)

\* ------------------------------------------------------------------ _KeywordStore.search
\* Mutant of TupleLess: the sort key is the score alone.
TupleLessScoreOnly(x, y) == x[1] < y[1]

\* Tuple comparison of (score, doc_id).
TupleLess(x, y) == x[1] < y[1] \/ (x[1] = y[1] /\ x[2] < y[2])

\* list.sort(reverse=True): a stable sort into descending tuple order.
RECURSIVE InsertDesc(_, _)
InsertDesc(sorted, x) ==
  IF sorted = <<>> THEN <<x>>
  ELSE IF TupleLess(Head(sorted), x)
       THEN <<x>> \o sorted
       ELSE <<Head(sorted)>> \o InsertDesc(Tail(sorted), x)

\* Mutant of SortReverse: the scores are left in iteration order.
SortReverseNone(s) == s

RECURSIVE SortReverse(_)
SortReverse(s) ==
  IF s = <<>> THEN <<>>
  ELSE InsertDesc(SortReverse(SubSeq(s, 1, Len(s) - 1)), s[Len(s)])

\* s[:k]: the first k elements; a negative k counts from the end.
SliceTo(s, k) ==
  LET stop == IF k >= 0 THEN (IF k < Len(s) THEN k ELSE Len(s))
              ELSE (IF Len(s) + k > 0 THEN Len(s) + k ELSE 0)
  IN  SubSeq(s, 1, stop)

\* Mutant of ScoresOf: documents that score 0 are left out.
ScoresOfPositive(df, n, tokens, ord, query) ==
  LET q_vec == TfidfVec(df, n, CounterOf(_tokenize(query)))
      all == [i \in 1..Len(ord) |->
                <<Cosine(q_vec, TfidfVec(df, n, tokens[ord[i]])), ord[i]>>]
      Positive(x) == x[1] > 0
  IN  SelectSeq(all, Positive)

\* The (score, doc_id) list in the iteration order of doc_tokens.
ScoresOf(df, n, tokens, ord, query) ==
  LET q_vec == TfidfVec(df, n, CounterOf(_tokenize(query)))
  IN  [i \in 1..Len(ord) |->
         <<Cosine(q_vec, TfidfVec(df, n, tokens[ord[i]])), ord[i]>>]

Ranking(df, n, tokens, ord, query) == SortReverse(ScoresOf(df, n, tokens, ord, query))

\* The list of _ScoredPoint that search returns on index st.
KwSearch(st, query, top_k) ==
  LET top == SliceTo(Ranking(st.term_df, st.N, st.doc_tokens, st.order, query), top_k)
  IN  [i \in 1..Len(top) |->
         [id |-> top[i][2], score |-> top[i][1], payload |-> st.docs[top[i][2]].payload]]

\* Mutant of StoreAfterSearch: looking a query term up inserts it with count 0
\* (a defaultdict read).
StoreAfterSearchInsert(st, query) ==
  LET asked == DOMAIN CounterOf(_tokenize(query))
  IN  [st EXCEPT !.term_df =
         [t \in DOMAIN st.term_df \cup asked |-> Get(st.term_df, t)]]

\* What the reads of search leave of index st: Counter.get inserts nothing.
StoreAfterSearch(st, query) == st

\* ------------------------------------------------------------------ VectorStore
\* add_document in keywords mode: the index it leaves.
AddDocumentOn(st, doc_id, text, metadata) ==
  KwAdd(st, doc_id, text, Merge(TextOnly(text), metadata))

\* ------------------------------------------------------------------ state machine
\* The module-level store of main.py, as one record.
cur ==
  [docs |-> docs, term_df |-> term_df, doc_tokens |-> doc_tokens,
   N |-> N, order |-> order]

SetStore(st) ==
  /\ docs' = st.docs
  /\ term_df' = st.term_df
  /\ doc_tokens' = st.doc_tokens
  /\ N' = st.N
  /\ order' = st.order

\* The terms of the stored version of doc_id that text no longer has, each
\* with the DF it has before the add.
RetractedBy(doc_id, text) ==
  LET gone == IF doc_id \in DOMAIN doc_tokens
              THEN DOMAIN doc_tokens[doc_id] \ DOMAIN CounterOf(_tokenize(text))
              ELSE {}
  IN  [t \in gone |-> Get(term_df, t)]

\* An Optional[str] setting: None, or a string of characters.
None == [isNone |-> TRUE, s |-> <<>>]

Some(s) == [isNone |-> FALSE, s |-> s]

\* The values a deployment setting takes: unset, empty, blank, a name.
Deployments == { None, Some(<<>>), Some(<<" ">>), Some(<<"w">>) }

\* bool(value) of an Optional[str]: None and "" are false.
Truthy(v) == ~v.isNone /\ v.s # <<>>

\* VectorStore.__init__: the mode chosen from the embeddings deployment.
ModeOf(deployment) == IF Truthy(deployment) THEN "embeddings" ELSE "keywords"

\* The module-level objects after import: settings read from the
\* environment, store = VectorStore() built, no request begun.
InitWith(embeddings, transcribe) ==
  /\ docs = EmptyMap
  /\ term_df = EmptyMap
  /\ doc_tokens = EmptyMap
  /\ N = 0
  /\ order = <<>>
  /\ results = <<>>
  /\ last = [op |-> "init"]
  /\ added = {}
  /\ twin = EmptyStore
  /\ swapped = FALSE
  /\ running = {}
  /\ apc = [pc |-> "idle"]
  /\ spc = [pc |-> "idle"]
  /\ embeddings_deployment = embeddings
  /\ mode = ModeOf(embeddings)
  /\ points = EmptyMap
  /\ trace = <<>>
  /\ raised = "none"
  /\ given = EmptyMap
  /\ transcribe_deployment = transcribe
  /\ tpc = [pc |-> "idle"]
  /\ tmp_files = {}

\* No embeddings deployment and no transcription deployment configured.
Init == InitWith(None, None)

\* POST /transcribe reaching store.add_document (keywords mode).
AddDocument(doc_id, text, metadata) ==
  /\ SetStore(AddDocumentOn(cur, doc_id, text, metadata))
  /\ results' = <<>>
  /\ last' = [op |-> "add", doc_id |-> doc_id,
              replaced |-> doc_id \in DOMAIN docs,
              n_before |-> N,
              retracted |-> RetractedBy(doc_id, text)]
  /\ added' = added \cup {doc_id}
  /\ UNCHANGED <<twin, swapped, running, apc, spc>>
  /\ UNCHANGED <<facadeVars, audioVars>>

\* POST /chat reaching store.query (keywords mode).
Query(text, top_k) ==
  /\ results' = KwSearch(cur, text, top_k)
  /\ SetStore(StoreAfterSearch(cur, text))
  /\ last' = [op |-> "query", text |-> text, top_k |-> top_k, before |-> cur]
  /\ UNCHANGED <<added, twin, swapped, running, apc, spc>>
  /\ UNCHANGED <<facadeVars, audioVars>>

Next ==
  \/ \E d \in DocIds, t \in Texts, m \in Metadatas : AddDocument(d, t, m)
  \/ \E q \in Queries, k \in TopKs : Query(q, k)

Spec == Init /\ [][Next]_vars

\* ------------------------------------------------------------------ two insertion orders
\* The same add_document on the index and on twin.
AddBoth(doc_id, text, metadata) ==
  /\ ~swapped
  /\ SetStore(AddDocumentOn(cur, doc_id, text, metadata))
  /\ twin' = AddDocumentOn(twin, doc_id, text, metadata)
  /\ added' = added \cup {doc_id}
  /\ UNCHANGED <<results, last, swapped, running, apc, spc>>
  /\ UNCHANGED <<facadeVars, audioVars>>

\* Documents A = (d1, t1, m1) and B = (d2, t2, m2) with distinct doc_ids:
\* the index receives A then B, twin receives B then A.
AddOpposite(d1, t1, m1, d2, t2, m2) ==
  /\ ~swapped
  /\ d1 # d2
  /\ SetStore(AddDocumentOn(AddDocumentOn(cur, d1, t1, m1), d2, t2, m2))
  /\ twin' = AddDocumentOn(AddDocumentOn(twin, d2, t2, m2), d1, t1, m1)
  /\ added' = added \cup {d1, d2}
  /\ swapped' = TRUE
  /\ UNCHANGED <<results, last, running, apc, spc>>
  /\ UNCHANGED <<facadeVars, audioVars>>

NextOrder ==
  \/ \E d \in DocIds, t \in Texts, m \in Metadatas : AddBoth(d, t, m)
  \/ \E d1 \in DocIds, t1 \in Texts, m1 \in Metadatas,
        d2 \in DocIds, t2 \in Texts, m2 \in Metadatas :
       AddOpposite(d1, t1, m1, d2, t2, m2)

SpecOrder == Init /\ [][NextOrder]_vars

\* ------------------------------------------------------------------ handlers, statement by statement
\* Mutant of CanRun: the handlers are plain functions run on worker threads,
\* one request of each kind at a time.
CanRunThreaded(handler) == handler \notin running

\* transcribe and chat are coroutines (async def) whose bodies hold no
\* await: the event loop runs one body to its end before starting another.
CanRun(handler) == running = {}

\* POST /transcribe: add_document -> _KeywordStore.add is entered (line 31).
BeginAdd(doc_id, text, metadata) ==
  /\ CanRun("transcribe")
  /\ apc.pc = "idle"
  /\ running' = running \cup {"transcribe"}
  /\ apc' = [pc      |-> IF doc_id \in DOMAIN docs THEN "retract" ELSE "tokens",
             doc_id  |-> doc_id,
             text    |-> text,
             payload |-> Merge(TextOnly(text), metadata),
             before  |-> cur,
             todo    |-> IF doc_id \in DOMAIN docs /\ doc_id \in DOMAIN doc_tokens
                         THEN DOMAIN doc_tokens[doc_id] ELSE {}]
  /\ added' = added \cup {doc_id}
  /\ results' = <<>>
  /\ last' = [op |-> "add", doc_id |-> doc_id]
  /\ UNCHANGED <<docs, term_df, doc_tokens, N, order, twin, swapped, spc>>
  /\ UNCHANGED <<facadeVars, audioVars>>

\* One turn of the retraction loop (lines 33-36).
RetractStep ==
  /\ apc.pc = "retract"
  /\ IF apc.todo = {}
     THEN /\ apc' = [apc EXCEPT !.pc = "tokens"]
          /\ UNCHANGED term_df
     ELSE \E t \in apc.todo :
            /\ term_df' = DecrementTerm(term_df, t)
            /\ apc' = [apc EXCEPT !.todo = apc.todo \ {t}]
  /\ UNCHANGED <<docs, doc_tokens, N, order, results, last, added, twin, swapped,
                 running, spc>>
  /\ UNCHANGED <<facadeVars, audioVars>>

\* tokens, tf and self.doc_tokens[doc_id] = tf (lines 38-40).
StoreTokens ==
  /\ apc.pc = "tokens"
  /\ LET tf == CounterOf(_tokenize(apc.text))
     IN  /\ doc_tokens' = DictSet(doc_tokens, apc.doc_id, tf)
         /\ order' = OrderAfterSet(order, apc.doc_id)
         /\ apc' = [apc EXCEPT !.pc = "apply", !.todo = DOMAIN tf]
  /\ UNCHANGED <<docs, term_df, N, results, last, added, twin, swapped, running, spc>>
  /\ UNCHANGED <<facadeVars, audioVars>>

\* One turn of the increment loop (lines 41-42).
ApplyStep ==
  /\ apc.pc = "apply"
  /\ IF apc.todo = {}
     THEN /\ apc' = [apc EXCEPT !.pc = "docs"]
          /\ UNCHANGED term_df
     ELSE \E t \in apc.todo :
            /\ term_df' = IncrementTerm(term_df, t)
            /\ apc' = [apc EXCEPT !.todo = apc.todo \ {t}]
  /\ UNCHANGED <<docs, doc_tokens, N, order, results, last, added, twin, swapped,
                 running, spc>>
  /\ UNCHANGED <<facadeVars, audioVars>>

\* self.docs[doc_id] = {"payload": ...} (line 44).
StoreDocs ==
  /\ apc.pc = "docs"
  /\ docs' = DictSet(docs, apc.doc_id,
                     [payload |-> StoredPayload(apc.payload, apc.text)])
  /\ apc' = [apc EXCEPT !.pc = "size"]
  /\ UNCHANGED <<term_df, doc_tokens, N, order, results, last, added, twin, swapped,
                 running, spc>>
  /\ UNCHANGED <<facadeVars, audioVars>>

\* self.N = len(self.docs) (line 45); add and the handler return.
StoreSize ==
  /\ apc.pc = "size"
  /\ N' = Cardinality(DOMAIN docs)
  /\ apc' = [pc |-> "idle"]
  /\ running' = running \ {"transcribe"}
  /\ UNCHANGED <<docs, term_df, doc_tokens, order, results, last, added, twin,
                 swapped, spc>>
  /\ UNCHANGED <<facadeVars, audioVars>>

\* POST /chat: query -> _KeywordStore.search computes q_vec (lines 77-79).
BeginSearch(query, top_k) ==
  /\ CanRun("chat")
  /\ spc.pc = "idle"
  /\ running' = running \cup {"chat"}
  /\ spc' = [pc     |-> "score",
             query  |-> query,
             top_k  |-> top_k,
             q_vec  |-> TfidfVec(term_df, N, CounterOf(_tokenize(query))),
             i      |-> 1,
             scores |-> <<>>]
  /\ results' = <<>>
  /\ last' = [op |-> "query", text |-> query, top_k |-> top_k]
  /\ UNCHANGED <<docs, term_df, doc_tokens, N, order, added, twin, swapped, apc>>
  /\ UNCHANGED <<facadeVars, audioVars>>

\* One turn of the scoring loop over doc_tokens.items() (lines 80-83).
ScoreStep ==
  /\ spc.pc = "score"
  /\ IF spc.i > Len(order)
     THEN spc' = [spc EXCEPT !.pc = "collect"]
     ELSE LET doc_id == order[spc.i]
              d_vec == TfidfVec(term_df, N, doc_tokens[doc_id])
          IN  spc' = [spc EXCEPT
                        !.i = spc.i + 1,
                        !.scores = Append(spc.scores, <<Cosine(spc.q_vec, d_vec), doc_id>>)]
  /\ UNCHANGED <<docs, term_df, doc_tokens, N, order, results, last, added, twin,
                 swapped, running, apc>>
  /\ UNCHANGED <<facadeVars, audioVars>>

\* The sort, the slice and the payload lookups (lines 84-89); a doc_id that
\* docs does not hold raises KeyError. search and the handler return.
Collect ==
  /\ spc.pc = "collect"
  /\ LET top == SliceTo(SortReverse(spc.scores), spc.top_k)
     IN  results' =
           IF \A i \in 1..Len(top) : top[i][2] \in DOMAIN docs
           THEN [i \in 1..Len(top) |->
                   [id |-> top[i][2], score |-> top[i][1],
                    payload |-> docs[top[i][2]].payload]]
           ELSE <<"KeyError">>
  /\ spc' = [pc |-> "idle"]
  /\ running' = running \ {"chat"}
  /\ UNCHANGED <<docs, term_df, doc_tokens, N, order, last, added, twin, swapped, apc>>
  /\ UNCHANGED <<facadeVars, audioVars>>

NextConc ==
  \/ \E d \in DocIds, t \in Texts, m \in Metadatas : BeginAdd(d, t, m)
  \/ RetractStep
  \/ StoreTokens
  \/ ApplyStep
  \/ StoreDocs
  \/ StoreSize
  \/ \E q \in Queries, k \in TopKs : BeginSearch(q, k)
  \/ ScoreStep
  \/ Collect

SpecConc == Init /\ [][NextConc]_vars

\* ------------------------------------------------------------------ the facade in either mode
\* The texts, metadata, questions and limits handed to the facade.  One
\* metadata carries a key "text" whose value is none of the texts.
FacadeTexts ==
  { <<>>,
    <<"a", " ", "B">> }

FacadeMetadatas ==
  { EmptyMap,
    [text |-> <<"c">>, nombre |-> <<"d">>] }

FacadeQueries == { <<>>, <<"a">> }

FacadeTopKs == 1..MaxDocs

\* add() reads self.doc_tokens[doc_id] for a doc_id that docs holds (lines
\* 31-32): KeyError when doc_tokens does not hold it.
KwAddRaises(st, doc_id) ==
  doc_id \in DOMAIN st.docs /\ doc_id \notin DOMAIN st.doc_tokens

\* search() reads self.docs[doc_id] for every ranked doc_id it returns
\* (lines 86-88): KeyError when docs does not hold one.
KwSearchRaises(st, query, top_k) ==
  LET top == SliceTo(Ranking(st.term_df, st.N, st.doc_tokens, st.order, query), top_k)
  IN  \E i \in 1..Len(top) : top[i][2] \notin DOMAIN st.docs

\* The vector the embedding provider returns for text: an opaque value that
\* depends on the text alone.
Embedding(text) == <<"vector", text>>

\* payload={"text": text, **metadata} of the point upserted (line 144).
DensePayload(text, metadata) == Merge(TextOnly(text), metadata)

\* Mutant of DenseAddOutcome: a failed embedding call is tried once more.
DenseAddOutcomeRetry(pts, doc_id, text, metadata, embedOk, dbOk) ==
  IF ~dbOk
  THEN [points |-> pts, trace |-> <<"embed", "upsert">>, raised |-> "UnexpectedResponse"]
  ELSE [points |-> DictSet(pts, doc_id,
                           [vector |-> Embedding(text),
                            payload |-> DensePayload(text, metadata)]),
        trace  |-> IF embedOk THEN <<"embed", "upsert">>
                   ELSE <<"embed", "embed", "upsert">>,
        raised |-> "none"]

\* add_document in embeddings mode on collection pts (lines 136-147): the
\* collection it leaves, the collaborators it calls and what it raises.
\* embedOk and dbOk tell whether the provider and the database answer.
DenseAddOutcome(pts, doc_id, text, metadata, embedOk, dbOk) ==
  IF ~embedOk
  THEN [points |-> pts, trace |-> <<"embed">>, raised |-> "OpenAIError"]
  ELSE IF ~dbOk
       THEN [points |-> pts, trace |-> <<"embed", "upsert">>,
             raised |-> "UnexpectedResponse"]
       ELSE [points |-> DictSet(pts, doc_id,
                                [vector |-> Embedding(text),
                                 payload |-> DensePayload(text, metadata)]),
             trace  |-> <<"embed", "upsert">>,
             raised |-> "none"]

\* The points the database returns for a search with limit top_k: the
\* ranking is the database's own; here the stored points by doc_id.
RECURSIVE PointsFrom(_, _)
PointsFrom(pts, ids) ==
  IF ids = {} THEN <<>>
  ELSE LET d == CHOOSE x \in ids : \A y \in ids : x <= y
       IN  <<[id |-> d, score |-> 0, payload |-> pts[d].payload]>>
             \o PointsFrom(pts, ids \ {d})

\* query in embeddings mode (lines 152-155).
DenseQueryOutcome(pts, text, top_k, embedOk, dbOk) ==
  IF ~embedOk
  THEN [results |-> <<>>, trace |-> <<"embed">>, raised |-> "OpenAIError"]
  ELSE IF ~dbOk
       THEN [results |-> <<>>, trace |-> <<"embed", "search">>,
             raised |-> "UnexpectedResponse"]
       ELSE [results |-> SliceTo(PointsFrom(pts, DOMAIN pts), top_k),
             trace   |-> <<"embed", "search">>,
             raised  |-> "none"]

\* Mutant of ModeAfterCall: a call that raised switches the store to the
\* lexical index.
ModeAfterCallFallback(m, exc) == IF exc = "none" THEN m ELSE "keywords"

\* self._mode after a call of add_document or query that raised exc: neither
\* method assigns it.
ModeAfterCall(m, exc) == m

\* The arguments of the latest add_document that stored doc_id.  last keeps,
\* of a call that the provider or the database failed, the collection it
\* began on (failed_on).
GivenAfter(doc_id, text, metadata) ==
  DictSet(given, doc_id, [text |-> text, metadata |-> metadata])

\* store.add_document(doc_id, text, metadata) with self._mode == "keywords".
AddDocumentKeywords(doc_id, text, metadata) ==
  /\ mode = "keywords"
  /\ LET exc == IF KwAddRaises(cur, doc_id) THEN "KeyError" ELSE "none"
     IN  /\ raised' = exc
         /\ mode' = ModeAfterCall(mode, exc)
         /\ IF exc = "none"
            THEN /\ SetStore(AddDocumentOn(cur, doc_id, text, metadata))
                 /\ given' = GivenAfter(doc_id, text, metadata)
                 /\ added' = added \cup {doc_id}
            ELSE UNCHANGED <<docs, term_df, doc_tokens, N, order, given, added>>
  /\ trace' = <<"kw">>
  /\ results' = <<>>
  /\ last' = [op |-> "add", doc_id |-> doc_id]
  /\ UNCHANGED <<twin, swapped, running, apc, spc, embeddings_deployment, points>>
  /\ UNCHANGED audioVars

\* store.add_document(doc_id, text, metadata) with self._mode == "embeddings".
AddDocumentEmbeddings(doc_id, text, metadata, embedOk, dbOk) ==
  /\ mode = "embeddings"
  /\ LET out == DenseAddOutcome(points, doc_id, text, metadata, embedOk, dbOk)
     IN  /\ points' = out.points
         /\ trace' = out.trace
         /\ raised' = out.raised
         /\ mode' = ModeAfterCall(mode, out.raised)
         /\ given' = IF out.raised = "none" THEN GivenAfter(doc_id, text, metadata)
                     ELSE given
         /\ added' = IF out.raised = "none" THEN added \cup {doc_id} ELSE added
  /\ results' = <<>>
  /\ last' = [op |-> "add", doc_id |-> doc_id, embedOk |-> embedOk, dbOk |-> dbOk,
              failed_on |-> IF embedOk /\ dbOk THEN EmptyMap ELSE points]
  /\ UNCHANGED <<docs, term_df, doc_tokens, N, order, twin, swapped, running,
                 apc, spc, embeddings_deployment>>
  /\ UNCHANGED audioVars

\* store.query(text, top_k) with self._mode == "keywords".
QueryKeywords(text, top_k) ==
  /\ mode = "keywords"
  /\ LET exc == IF KwSearchRaises(cur, text, top_k) THEN "KeyError" ELSE "none"
     IN  /\ raised' = exc
         /\ mode' = ModeAfterCall(mode, exc)
         /\ results' = IF exc = "none" THEN KwSearch(cur, text, top_k) ELSE <<>>
  /\ SetStore(StoreAfterSearch(cur, text))
  /\ trace' = <<"kw">>
  /\ last' = [op |-> "query", text |-> text, top_k |-> top_k, before |-> cur]
  /\ UNCHANGED <<added, twin, swapped, running, apc, spc, embeddings_deployment,
                 points, given>>
  /\ UNCHANGED audioVars

\* store.query(text, top_k) with self._mode == "embeddings".
QueryEmbeddings(text, top_k, embedOk, dbOk) ==
  /\ mode = "embeddings"
  /\ LET out == DenseQueryOutcome(points, text, top_k, embedOk, dbOk)
     IN  /\ results' = out.results
         /\ trace' = out.trace
         /\ raised' = out.raised
         /\ mode' = ModeAfterCall(mode, out.raised)
  /\ last' = [op |-> "query", text |-> text, top_k |-> top_k,
              embedOk |-> embedOk, dbOk |-> dbOk, failed_on |-> points]
  /\ UNCHANGED <<docs, term_df, doc_tokens, N, order, added, twin, swapped,
                 running, apc, spc, embeddings_deployment, points, given>>
  /\ UNCHANGED audioVars

\* The store is built with any embeddings deployment setting.
InitFacade == \E e \in Deployments : InitWith(e, None)

NextFacade ==
  \/ \E d \in DocIds, t \in FacadeTexts, m \in FacadeMetadatas :
       AddDocumentKeywords(d, t, m)
  \/ \E d \in DocIds, t \in FacadeTexts, m \in FacadeMetadatas,
        embedOk \in BOOLEAN, dbOk \in BOOLEAN :
       AddDocumentEmbeddings(d, t, m, embedOk, dbOk)
  \/ \E q \in FacadeQueries, k \in FacadeTopKs : QueryKeywords(q, k)
  \/ \E q \in FacadeQueries, k \in FacadeTopKs,
        embedOk \in BOOLEAN, dbOk \in BOOLEAN :
       QueryEmbeddings(q, k, embedOk, dbOk)

SpecFacade == InitFacade /\ [][NextFacade]_vars

\* ------------------------------------------------------------------ properties
TermsOf(text) == DOMAIN CounterOf(_tokenize(text))

TermsOfCorpus == UNION {DOMAIN doc_tokens[d] : d \in DOMAIN doc_tokens}

DocsContaining(t) == {d \in DOMAIN doc_tokens : t \in DOMAIN doc_tokens[d]}

Min(a, b) == IF a < b THEN a ELSE b

\* The score of stored document d for query q on index st.
DocScore(st, d, q) ==
  Cosine(TfidfVec(st.term_df, st.N, CounterOf(_tokenize(q))),
         TfidfVec(st.term_df, st.N, st.doc_tokens[d]))

\* e is ranked before d: higher score, or equal score and greater doc_id.
RankedBefore(st, q, e, d) ==
  \/ DocScore(st, e, q) > DocScore(st, d, q)
  \/ DocScore(st, e, q) = DocScore(st, d, q) /\ e > d

Shares(d, q) == DOMAIN doc_tokens[d] \cap TermsOf(q) # {}

OrdersOf(s) ==
  {p \in [1..Len(s) -> {s[i] : i \in 1..Len(s)}] :
     \A i, j \in 1..Len(s) : i # j => p[i] # p[j]}

\* C1: after any sequence of adds and re-adds, the DF of every term equals
\* the number of stored documents whose term-frequency table contains the
\* term, and no term is in the DF table with a count of zero or below.
C1_DfMatchesPostings ==
  /\ \A t \in DOMAIN term_df \cup TermsOfCorpus :
       Get(term_df, t) = Cardinality(DocsContaining(t))
  /\ \A t \in DOMAIN term_df : term_df[t] > 0

C1_Witness ==
  /\ last.op = "add" /\ last.replaced /\ DOMAIN last.retracted # {}
  /\ \E t \in DOMAIN term_df : term_df[t] = 2

\* C2: N equals the number of distinct doc_ids added so far; an add of a
\* stored doc_id leaves N unchanged and an add of a new doc_id increases N
\* by exactly one.
C2_NCountsDistinctIds ==
  /\ N = Cardinality(added)
  /\ last.op = "add" =>
       N = last.n_before + (IF last.replaced THEN 0 ELSE 1)

C2_Witness ==
  /\ last.op = "add" /\ last.replaced
  /\ N = 2

\* C3: when a stored doc_id is re-added, every term of its old text that is
\* not in its new text has its DF decremented by one and is removed from the
\* DF table exactly when no other stored document contains it; and for a
\* query made only of such terms the document scores 0 and no result of the
\* query carries it with a positive score.
C3_UpdateRetraction ==
  (last.op = "add" /\ last.replaced) =>
    LET d == last.doc_id
        gone == DOMAIN last.retracted
    IN  /\ \A t \in gone :
             /\ Get(term_df, t) = last.retracted[t] - 1
             /\ t \in DOMAIN term_df <=>
                  \E e \in DOMAIN doc_tokens \ {d} : t \in DOMAIN doc_tokens[e]
        /\ \A q \in Queries :
             (TermsOf(q) # {} /\ TermsOf(q) \subseteq gone) =>
               /\ DocScore(cur, d, q) = 0
               /\ \A k \in TopKs :
                    LET found == KwSearch(cur, q, k)
                    IN  \A i \in 1..Len(found) :
                          found[i].id = d => found[i].score = 0

C3_Witness ==
  /\ last.op = "add" /\ last.replaced /\ N = 2
  /\ \E t \in DOMAIN last.retracted : t \notin DOMAIN term_df
  /\ \E t \in DOMAIN last.retracted : t \in DOMAIN term_df
  /\ \E q \in Queries : TermsOf(q) # {} /\ TermsOf(q) \subseteq DOMAIN last.retracted

\* C4: for every index state, every query and every top_k <= 0, the query
\* returns an empty sequence.
C4_NonPositiveTopKEmpty ==
  (last.op = "query" /\ last.top_k <= 0) => results = <<>>

\* C5: for top_k >= 1 the query returns exactly min(top_k, N) results, and
\* result i is the stored document that exactly i - 1 stored documents are
\* ranked before (score descending, then doc_id descending), with its score;
\* so an empty index gives an empty sequence and documents scoring 0 are
\* returned when fewer than top_k documents are stored.
C5_TopKPrefix ==
  (last.op = "query" /\ last.top_k >= 1) =>
    /\ Len(results) = Min(last.top_k, N)
    /\ \A i \in 1..Len(results) :
         /\ results[i].id \in DOMAIN docs
         /\ results[i].score = DocScore(cur, results[i].id, last.text)
         /\ Cardinality({e \in DOMAIN docs :
                           RankedBefore(cur, last.text, e, results[i].id)}) = i - 1

C5_Witness ==
  /\ last.op = "query" /\ last.top_k = 1 /\ N = 2
  /\ Len(results) = 1
  /\ results[1].score > 0
  /\ \E d \in DOMAIN docs : DocScore(cur, d, last.text) = 0

\* C6: along the result sequence scores never increase, two adjacent results
\* of equal score are in descending doc_id order, and the sequence is the
\* same for every insertion order of the stored documents.
C6_ResultsOrdered ==
  last.op = "query" =>
    /\ \A i \in 1..(Len(results) - 1) :
         \/ results[i].score > results[i + 1].score
         \/ /\ results[i].score = results[i + 1].score
            /\ results[i].id > results[i + 1].id
    /\ \A p \in OrdersOf(order) :
         KwSearch([cur EXCEPT !.order = p], last.text, last.top_k) = results

C6_Witness ==
  /\ last.op = "query" /\ Len(results) = 2
  /\ results[1].score = results[2].score
  /\ results[1].score > 0
  /\ order = <<results[2].id, results[1].id>>

\* C8: for every index state and every query, a stored document sharing no
\* term with the query scores exactly 0, one sharing a term scores more than
\* 0, and every document sharing a term is ranked above every document
\* sharing none.
C8_SharedTermsScorePositive ==
  last.op = "query" =>
    LET q == last.text
    IN  /\ \A d \in DOMAIN docs :
             /\ ~Shares(d, q) => DocScore(cur, d, q) = 0
             /\ Shares(d, q) => DocScore(cur, d, q) > 0
        /\ \A i \in 1..Len(results) :
             /\ ~Shares(results[i].id, q) => results[i].score = 0
             /\ Shares(results[i].id, q) => results[i].score > 0
        /\ \A i, j \in 1..Len(results) :
             (Shares(results[i].id, q) /\ ~Shares(results[j].id, q)) =>
               (i < j /\ results[i].score > results[j].score)
        /\ last.top_k >= 0 =>
             \A d \in DOMAIN docs :
               (Shares(d, q) /\ \E i \in 1..Len(results) : ~Shares(results[i].id, q))
                 => \E j \in 1..Len(results) : results[j].id = d

C8_Witness ==
  /\ last.op = "query" /\ Len(results) = 2
  /\ Shares(results[1].id, last.text) /\ results[1].score > 0
  /\ ~Shares(results[2].id, last.text) /\ results[2].score = 0
  /\ doc_tokens[results[2].id] # EmptyMap

\* C10: a query leaves docs, term_df, doc_tokens and N unchanged, also for
\* query terms absent from the corpus, so the same query asked again returns
\* the same ordered result sequence.
C10_SearchReadOnly ==
  last.op = "query" =>
    /\ cur = last.before
    /\ results = KwSearch(cur, last.text, last.top_k)

C10_Witness ==
  /\ last.op = "query" /\ N >= 1
  /\ ~(TermsOf(last.text) \subseteq DOMAIN term_df)
  /\ results # <<>>
  /\ results[1].score > 0

\* C9: for documents A and B with distinct doc_ids and any starting index,
\* add(A) then add(B) and add(B) then add(A) reach the same DF table, the
\* same N and the same term-frequency tables, and every query returns the
\* same scores in the same order on both.
C9_OrderIndependent ==
  swapped =>
    /\ twin.term_df = term_df
    /\ twin.N = N
    /\ twin.doc_tokens = doc_tokens
    /\ \A q \in Queries, k \in TopKs : KwSearch(twin, q, k) = KwSearch(cur, q, k)

C9_Witness ==
  /\ swapped
  /\ twin.order # order
  /\ \E q \in Queries :
       LET found == KwSearch(cur, q, 2)
       IN  /\ Len(found) = 2
           /\ found[1].score = found[2].score
           /\ found[1].score > 0

\* The index is mutually consistent: DF matches the posting data, docs and
\* doc_tokens hold the same doc_ids, and N is the number of documents.
Consistent ==
  /\ \A t \in DOMAIN term_df \cup TermsOfCorpus :
       Get(term_df, t) = Cardinality(DocsContaining(t))
  /\ \A t \in DOMAIN term_df : term_df[t] > 0
  /\ DOMAIN docs = DOMAIN doc_tokens
  /\ N = Cardinality(DOMAIN docs)

\* C7: every state a search in progress reads is the index as it was before
\* an add or as it is after it, never one an add is part-way through, so
\* term_df, doc_tokens, docs and N are mutually consistent; and the search
\* returns what it returns on that index.
C7_SearchSeesWholeAdds ==
  /\ spc.pc # "idle" =>
       /\ Consistent
       /\ apc.pc # "idle" =>
            \/ cur = apc.before
            \/ cur = KwAdd(apc.before, apc.doc_id, apc.text, apc.payload)
  /\ (spc.pc = "idle" /\ apc.pc = "idle" /\ last.op = "query") =>
       results = KwSearch(cur, last.text, last.top_k)

C7_Witness ==
  /\ spc.pc = "score" /\ spc.i = 2
  /\ apc.pc = "idle"
  /\ N = 2
  /\ \E t \in DOMAIN term_df : term_df[t] = 2
  /\ \E t \in TermsOf(spc.query) : t \notin DOMAIN term_df

\* ------------------------------------------------------------------ payloads
\* payload is what add_document(text, metadata) must leave stored: the text
\* under "text", every other key of metadata with its value, nothing else.
CarriesGiven(payload, g) ==
  /\ DOMAIN payload = DOMAIN g.metadata \cup {"text"}
  /\ payload["text"] = g.text
  /\ \A k \in DOMAIN g.metadata \ {"text"} : payload[k] = g.metadata[k]

\* C11: in keywords mode the payload stored for a doc_id, and the payload of
\* every query result for it, has under "text" the text of the latest
\* add_document for that doc_id, also when the metadata has its own "text",
\* and carries every other metadata key unchanged.
C11_LexicalPayloadText ==
  mode = "keywords" =>
    /\ DOMAIN docs = DOMAIN given
    /\ \A d \in DOMAIN given : CarriesGiven(docs[d].payload, given[d])
    /\ \A i \in 1..Len(results) :
         /\ results[i].id \in DOMAIN given
         /\ CarriesGiven(results[i].payload, given[results[i].id])

\* A query returns a document whose metadata had a "text" of its own that
\* differs from the text added.
C11_Witness ==
  /\ mode = "keywords"
  /\ last.op = "query"
  /\ \E i \in 1..Len(results) :
       LET g == given[results[i].id]
       IN  /\ "text" \in DOMAIN g.metadata
           /\ g.metadata["text"] # g.text
           /\ "nombre" \in DOMAIN results[i].payload

\* C12: in embeddings mode the payload stored for a document, and the payload
\* of every point a query returns, has under "text" the text handed to the
\* add_document that stored it, whatever the metadata, also a metadata with
\* its own "text".
C12_DensePayloadText ==
  mode = "embeddings" =>
    /\ \A d \in DOMAIN points :
         d \in DOMAIN given /\ points[d].payload["text"] = given[d].text
    /\ \A i \in 1..Len(results) :
         /\ results[i].id \in DOMAIN given
         /\ results[i].payload["text"] = given[results[i].id].text

\* ------------------------------------------------------------------ totality
\* The documents whose latest add_document had a text without any token.
EmptyTextDocs == {d \in DOMAIN given : _tokenize(given[d].text) = <<>>}

\* C13: in keywords mode no call of add_document or query raises, and none
\* would on the next call, because docs and doc_tokens hold the same keys; a
\* document added with a text without tokens is stored, counted in N, counted
\* in no DF entry, and scores 0 for every query.
C13_LexicalTotal ==
  mode = "keywords" =>
    /\ raised = "none"
    /\ DOMAIN docs = DOMAIN doc_tokens
    /\ \A d \in DocIds : ~KwAddRaises(cur, d)
    /\ \A q \in FacadeQueries, k \in FacadeTopKs : ~KwSearchRaises(cur, q, k)
    /\ \A d \in EmptyTextDocs :
         /\ d \in DOMAIN docs
         /\ N = Cardinality(DOMAIN docs)
         /\ doc_tokens[d] = EmptyMap
         /\ \A t \in DOMAIN term_df :
              term_df[t] = Cardinality(DocsContaining(t) \ {d})
         /\ \A q \in Queries : DocScore(cur, d, q) = 0
         /\ \A i \in 1..Len(results) : results[i].id = d => results[i].score = 0

\* A query has returned a document stored with the empty text, next to a
\* document that has terms.
C13_Witness ==
  /\ mode = "keywords"
  /\ last.op = "query"
  /\ raised = "none"
  /\ term_df # EmptyMap
  /\ \E i \in 1..Len(results) : results[i].id \in EmptyTextDocs

\* ------------------------------------------------------------------ dense failures
\* The collaborator add_document or query calls after the embedding provider.
DatabaseCall == IF last.op = "add" THEN "upsert" ELSE "search"

\* C14: in embeddings mode a failure of the embedding call or of the vector
\* database reaches the caller as it was raised; the lexical index is not
\* used instead and no call is repeated; when the embedding call of
\* add_document fails, no upsert is issued and the collection is unchanged.
C14_DenseFailuresPropagate ==
  (mode = "embeddings" /\ last.op \in {"add", "query"}) =>
    /\ ~last.embedOk =>
         /\ raised = "OpenAIError"
         /\ trace = <<"embed">>
         /\ points = last.failed_on
         /\ results = <<>>
    /\ (last.embedOk /\ ~last.dbOk) =>
         /\ raised = "UnexpectedResponse"
         /\ trace = <<"embed", DatabaseCall>>
         /\ results = <<>>
    /\ (last.embedOk /\ last.dbOk) =>
         /\ raised = "none"
         /\ trace = <<"embed", DatabaseCall>>
    /\ cur = EmptyStore

\* The embedding call of an add_document fails on a collection that holds a
\* document.
C14_Witness ==
  /\ mode = "embeddings"
  /\ last.op = "add"
  /\ ~last.embedOk
  /\ raised = "OpenAIError"
  /\ points # EmptyMap

\* ------------------------------------------------------------------ mode
\* C15: the mode is the one chosen at construction from the embeddings
\* deployment setting and no call changes it; in keywords mode no call
\* reaches the embedding provider or the vector database, in embeddings mode
\* no call reaches the lexical index.
C15_ModeFixed ==
  /\ mode = ModeOf(embeddings_deployment)
  /\ mode = "keywords" =>
       /\ points = EmptyMap
       /\ \A i \in 1..Len(trace) : trace[i] = "kw"
  /\ mode = "embeddings" =>
       /\ cur = EmptyStore
       /\ \A i \in 1..Len(trace) : trace[i] \in {"embed", "upsert", "search"}

\* A store built with a blank (truthy) deployment holds a document and its
\* last call has raised.
C15_Witness ==
  /\ embeddings_deployment = Some(<<" ">>)
  /\ mode = "embeddings"
  /\ points # EmptyMap
  /\ raised # "none"

\* ------------------------------------------------------------------ replacement
\* The same add_document on the index and on twin, for a doc_id that both
\* hold or neither holds.
AddShared(doc_id, text, metadata) ==
  /\ ~swapped
  /\ doc_id \in DOMAIN docs => doc_id \in DOMAIN twin.docs
  /\ SetStore(AddDocumentOn(cur, doc_id, text, metadata))
  /\ twin' = AddDocumentOn(twin, doc_id, text, metadata)
  /\ added' = added \cup {doc_id}
  /\ UNCHANGED <<results, last, swapped, running, apc, spc>>
  /\ UNCHANGED <<facadeVars, audioVars>>

\* add_document on the index alone: twin never holds doc_id, and holds
\* every other document of the index.
AddIndexOnly(doc_id, text, metadata) ==
  /\ ~swapped
  /\ doc_id \notin DOMAIN twin.docs
  /\ DOMAIN docs \ {doc_id} = DOMAIN twin.docs
  /\ SetStore(AddDocumentOn(cur, doc_id, text, metadata))
  /\ added' = added \cup {doc_id}
  /\ UNCHANGED <<results, last, twin, swapped, running, apc, spc>>
  /\ UNCHANGED <<facadeVars, audioVars>>

\* The index receives add_document(d, t1, m1) and then add_document(d, t2,
\* m2); twin, which never held d, receives add_document(d, t2, m2) alone.
\* last keeps the index between the two adds (mid).
Replace(d, t1, m1, t2, m2) ==
  /\ ~swapped
  /\ d \notin DOMAIN twin.docs
  /\ DOMAIN docs \ {d} = DOMAIN twin.docs
  /\ LET mid == AddDocumentOn(cur, d, t1, m1)
     IN  /\ SetStore(AddDocumentOn(mid, d, t2, m2))
         /\ last' = [op |-> "replace", doc_id |-> d, t1 |-> t1, t2 |-> t2,
                     same |-> (t1 = t2 /\ m1 = m2),
                     held |-> d \in DOMAIN docs, mid |-> mid]
  /\ twin' = AddDocumentOn(twin, d, t2, m2)
  /\ added' = added \cup {d}
  /\ swapped' = TRUE
  /\ UNCHANGED <<results, running, apc, spc>>
  /\ UNCHANGED <<facadeVars, audioVars>>

NextReplace ==
  \/ \E d \in DocIds, t \in Texts, m \in Metadatas : AddShared(d, t, m)
  \/ \E d \in DocIds, t \in Texts, m \in Metadatas : AddIndexOnly(d, t, m)
  \/ \E d \in DocIds, t1 \in Texts, m1 \in FacadeMetadatas,
        t2 \in Texts, m2 \in FacadeMetadatas :
       Replace(d, t1, m1, t2, m2)

SpecReplace == Init /\ [][NextReplace]_vars

\* C16: add(d, t1, m1) followed by add(d, t2, m2) leaves the same DF table,
\* N, term-frequency tables and payloads as add(d, t2, m2) alone on an index
\* that never held d; a term of both t1 and t2 keeps the DF it had after the
\* first add, and adding the same text and metadata again changes nothing.
C16_ReplaceIsFreshAdd ==
  swapped =>
    /\ term_df = twin.term_df
    /\ N = twin.N
    /\ doc_tokens = twin.doc_tokens
    /\ docs = twin.docs
    /\ \A t \in TermsOf(last.t1) \cap TermsOf(last.t2) :
         Get(term_df, t) = Get(last.mid.term_df, t)
    /\ last.same => cur = last.mid

\* A document the index already held is replaced twice by texts that differ
\* and share a term, next to another document.
C16_Witness ==
  /\ swapped
  /\ last.op = "replace"
  /\ last.held
  /\ last.t1 # last.t2
  /\ TermsOf(last.t1) \cap TermsOf(last.t2) # {}
  /\ N = 2

\* ------------------------------------------------------------------ weights
\* Every weight of the TF-IDF vector of the term-frequency table tf is
\* positive and at least the raw frequency (weights are in units of 1/Scale).
WeightsAtLeastFrequency(tf) ==
  LET vec == TfidfVec(term_df, N, tf)
  IN  \A t \in DOMAIN vec : vec[t] > 0 /\ vec[t] >= tf[t] * Scale

\* C17: every term of the DF table has 1 <= DF <= N, so (1+N)/(1+DF) is at
\* least 1 and its logarithm is not negative: every weight computed for a
\* stored document or for a query is at least the raw frequency of the term,
\* and none is zero or negative.
C17_DfWithinCorpus ==
  /\ \A t \in DOMAIN term_df :
       /\ 1 <= term_df[t]
       /\ term_df[t] <= N
       /\ 1 + N >= 1 + term_df[t]
       /\ Idf(N, term_df[t]) >= Scale
  /\ \A d \in DOMAIN doc_tokens : WeightsAtLeastFrequency(doc_tokens[d])
  /\ \A q \in Queries : WeightsAtLeastFrequency(CounterOf(_tokenize(q)))

\* A term is in every document of a corpus of two (weight equal to the
\* frequency), another one in a single document (weight above it).
C17_Witness ==
  /\ N = 2
  /\ \E t \in DOMAIN term_df : term_df[t] = N
  /\ \E t \in DOMAIN term_df : term_df[t] = 1 /\ Idf(N, term_df[t]) > Scale
  /\ \E d \in DOMAIN doc_tokens :
       \E t \in DOMAIN doc_tokens[d] : doc_tokens[d][t] = 2

\* ------------------------------------------------------------------ transcribe_audio
\* str.strip(): the blanks at both ends removed.
RECURSIVE LStrip(_)
LStrip(s) == IF s # <<>> /\ Head(s) = " " THEN LStrip(Tail(s)) ELSE s

RECURSIVE RStrip(_)
RStrip(s) == IF s # <<>> /\ s[Len(s)] = " " THEN RStrip(SubSeq(s, 1, Len(s) - 1)) ELSE s

Strip(s) == RStrip(LStrip(s))

\* (settings.azure_openai_transcribe_deployment or "").strip() or None
TranscribeDepl(setting) ==
  LET stripped == Strip(IF Truthy(setting) THEN setting.s ELSE <<>>)
  IN  IF stripped = <<>> THEN None ELSE Some(stripped)

\* The texts a transcription service hands back: nothing, and a word after
\* a blank.
AudioTexts == { <<>>, <<" ", "a">> }

\* How client.audio.transcriptions.create ends: a result, or an exception
\* with its class and message.
AzureOutcomes ==
  { [type |-> "ok",              message |-> ""],
    [type |-> "NotFoundError",   message |-> "DeploymentNotFound"],
    [type |-> "BadRequestError", message |-> "OperationNotSupported"],
    [type |-> "BadRequestError", message |-> "invalid_request_error"],
    [type |-> "APITimeoutError", message |-> ""],
    [type |-> "OSError",         message |-> ""] }

NotCalled == [type |-> "not called", message |-> ""]

\* The exception classes that derive from openai.OpenAIError.
IsOpenAIError(type) == type \in {"NotFoundError", "BadRequestError", "APITimeoutError"}

\* "OperationNotSupported" in str(e), for the messages drawn above.
MentionsNotSupported(o) == o.message = "OperationNotSupported"

\* Mutant of AfterAzure: every BadRequestError falls back to local Whisper.
AfterAzureAnyBadRequest(o) ==
  IF o.type = "ok" THEN "ok"
  ELSE IF IsOpenAIError(o.type) THEN "fallback"
  ELSE "raise"

\* The except clauses of lines 114-128, in their order: what follows the
\* Azure call that ended as o.
AfterAzure(o) ==
  IF o.type = "ok" THEN "ok"
  ELSE IF o.type = "NotFoundError" THEN "fallback"
  ELSE IF o.type = "BadRequestError"
       THEN (IF MentionsNotSupported(o) THEN "fallback" ELSE "raise")
  ELSE IF IsOpenAIError(o.type) THEN "fallback"
  ELSE "raise"

\* Mutant of TempAfterFinally: the file is removed after the transcription
\* succeeded, not in a finally clause.
TempAfterSuccess(files, exc) == IF exc = "none" THEN files \ {"tmp"} ELSE files

\* finally: os.remove(tmp_path), whatever exception exc is pending.
TempAfterFinally(files, exc) == files \ {"tmp"}

\* Mutant of ReachesStore: a pending exception is swallowed.
ReachesStoreAlways(exc) == TRUE

\* The statements after the try (lines 140-146) run when no exception is
\* pending at the end of the finally clause.
ReachesStore(exc) == exc = "none"

\* extract_structured_info(text): none of the transcripts drawn has a
\* "nombre:", "edad:" or "diagnostico:" line, so no field is found.
ExtractStructuredInfo(text) == EmptyMap

\* structured = extract_structured_info(transcript); structured["__modo__"] = modo
Structured(transcript, modo) ==
  Merge(ExtractStructuredInfo(transcript), [k \in {"__modo__"} |-> modo])

\* The doc_ids either backend holds.
StoredIds == DOMAIN docs \cup DOMAIN points

\* tmp_path = _save_temp(file); transcript = ""; modo = "" (lines 103-105).
\* tpc keeps what the store held when the call began (before).
SaveTemp ==
  /\ tpc.pc \in {"idle", "returned", "raised"}
  /\ Cardinality(StoredIds) < MaxDocs
  /\ tmp_files' = tmp_files \cup {"tmp"}
  /\ tpc' = [pc |-> "try", transcript |-> <<>>, modo |-> "", exc |-> "none",
             calls |-> <<>>, azure |-> NotCalled, doc_id |-> 0,
             before |-> [index |-> cur, points |-> points]]
  /\ raised' = "none"
  /\ trace' = <<>>
  /\ UNCHANGED <<docs, term_df, doc_tokens, N, order, results, last, added, twin,
                 swapped, running, apc, spc, embeddings_deployment, mode, points,
                 given, transcribe_deployment>>

\* _transcribe_via_azure and the except clause that catches its failure
\* (lines 110-128); o is how the Azure call ends, text what it returns.
AzureCall(o, text) ==
  /\ tpc.pc = "try"
  /\ ~TranscribeDepl(transcribe_deployment).isNone
  /\ o.type = "ok" \/ text = <<>>
  /\ LET after == AfterAzure(o)
     IN  tpc' = [tpc EXCEPT
                   !.calls = Append(@, "azure"),
                   !.azure = o,
                   !.transcript = IF after = "ok" THEN text ELSE @,
                   !.modo = IF after = "ok" THEN "azure-transcriptions" ELSE @,
                   !.exc = IF after = "raise" THEN o.type ELSE @,
                   !.pc = IF after = "fallback" THEN "fallback" ELSE "finally"]
  /\ UNCHANGED <<docs, term_df, doc_tokens, N, order, results, last, added, twin,
                 swapped, running, apc, spc, facadeVars, transcribe_deployment,
                 tmp_files>>

\* _transcribe_via_local_whisper, as the fallback of a failed Azure call or
\* directly when no deployment is configured (lines 116, 121, 127, 131); it
\* returns the stripped text or raises RuntimeError.
LocalWhisper(ok, text) ==
  /\ \/ tpc.pc = "fallback"
     \/ tpc.pc = "try" /\ TranscribeDepl(transcribe_deployment).isNone
  /\ ok \/ text = <<>>
  /\ tpc' = [tpc EXCEPT
               !.calls = Append(@, "local"),
               !.transcript = IF ok THEN Strip(text) ELSE @,
               !.modo = IF ok THEN "local-whisper" ELSE @,
               !.exc = IF ok THEN @ ELSE "RuntimeError",
               !.pc = "finally"]
  /\ UNCHANGED <<docs, term_df, doc_tokens, N, order, results, last, added, twin,
                 swapped, running, apc, spc, facadeVars, transcribe_deployment,
                 tmp_files>>

\* The finally clause (lines 134-138); a pending exception then reaches the
\* caller.
RemoveTemp ==
  /\ tpc.pc = "finally"
  /\ tmp_files' = TempAfterFinally(tmp_files, tpc.exc)
  /\ IF ReachesStore(tpc.exc)
     THEN /\ tpc' = [tpc EXCEPT !.pc = "store"]
          /\ UNCHANGED raised
     ELSE /\ tpc' = [tpc EXCEPT !.pc = "raised"]
          /\ raised' = tpc.exc
  /\ UNCHANGED <<docs, term_df, doc_tokens, N, order, results, last, added, twin,
                 swapped, running, apc, spc, embeddings_deployment, mode, points,
                 trace, given, transcribe_deployment>>

\* Lines 140-146 on a store in keywords mode; doc_id is the uuid4 drawn, one
\* that no document has.
StoreKeywords(doc_id) ==
  /\ tpc.pc = "store"
  /\ mode = "keywords"
  /\ doc_id \notin StoredIds
  /\ LET structured == Structured(tpc.transcript, tpc.modo)
     IN  /\ SetStore(AddDocumentOn(cur, doc_id, tpc.transcript, structured))
         /\ given' = GivenAfter(doc_id, tpc.transcript, structured)
  /\ added' = added \cup {doc_id}
  /\ trace' = <<"kw">>
  /\ raised' = "none"
  /\ tpc' = [tpc EXCEPT !.pc = "returned", !.doc_id = doc_id]
  /\ UNCHANGED <<results, last, twin, swapped, running, apc, spc,
                 embeddings_deployment, mode, points, transcribe_deployment,
                 tmp_files>>

\* Lines 140-146 on a store in embeddings mode: add_document may raise.
StoreEmbeddings(doc_id, embedOk, dbOk) ==
  /\ tpc.pc = "store"
  /\ mode = "embeddings"
  /\ doc_id \notin StoredIds
  /\ LET structured == Structured(tpc.transcript, tpc.modo)
         out == DenseAddOutcome(points, doc_id, tpc.transcript, structured, embedOk, dbOk)
     IN  /\ points' = out.points
         /\ trace' = out.trace
         /\ raised' = out.raised
         /\ given' = IF out.raised = "none"
                     THEN GivenAfter(doc_id, tpc.transcript, structured) ELSE given
         /\ added' = IF out.raised = "none" THEN added \cup {doc_id} ELSE added
         /\ tpc' = IF out.raised = "none"
                   THEN [tpc EXCEPT !.pc = "returned", !.doc_id = doc_id]
                   ELSE [tpc EXCEPT !.pc = "raised", !.exc = out.raised]
  /\ UNCHANGED <<docs, term_df, doc_tokens, N, order, results, last, twin, swapped,
                 running, apc, spc, embeddings_deployment, mode,
                 transcribe_deployment, tmp_files>>

\* Any embeddings deployment and any transcription deployment setting.
InitAudio == \E e \in Deployments, t \in Deployments : InitWith(e, t)

NextAudio ==
  \/ SaveTemp
  \/ \E o \in AzureOutcomes, t \in AudioTexts : AzureCall(o, t)
  \/ \E ok \in BOOLEAN, t \in AudioTexts : LocalWhisper(ok, t)
  \/ RemoveTemp
  \/ \E d \in DocIds : StoreKeywords(d)
  \/ \E d \in DocIds, embedOk \in BOOLEAN, dbOk \in BOOLEAN :
       StoreEmbeddings(d, embedOk, dbOk)

SpecAudio == InitAudio /\ [][NextAudio]_vars

\* The transcription step of the call is over: the try statement was left.
StepOver == tpc.pc \in {"finally", "store", "returned", "raised"}

Configured == ~TranscribeDepl(transcribe_deployment).isNone

\* C18: with a transcription deployment configured, an Azure call that
\* fails with NotFoundError, or with a BadRequestError that mentions
\* OperationNotSupported, is followed by local Whisper, and the mode is then
\* "local-whisper"; any other BadRequestError is raised again and local
\* Whisper is not tried; with no deployment (unset, empty or blank) Azure is
\* not called and local Whisper runs directly; the mode is
\* "azure-transcriptions" only when the Azure call succeeded.
C18_FallbackRouting ==
  StepOver =>
    /\ (Configured /\ (tpc.azure.type = "NotFoundError"
                       \/ (tpc.azure.type = "BadRequestError"
                           /\ MentionsNotSupported(tpc.azure)))) =>
         /\ tpc.calls = <<"azure", "local">>
         /\ tpc.exc = "none" => tpc.modo = "local-whisper"
    /\ (Configured /\ tpc.azure.type = "BadRequestError"
                   /\ ~MentionsNotSupported(tpc.azure)) =>
         /\ tpc.calls = <<"azure">>
         /\ tpc.exc = "BadRequestError"
    /\ Configured => tpc.calls[1] = "azure"
    /\ ~Configured =>
         /\ tpc.calls = <<"local">>
         /\ tpc.azure = NotCalled
         /\ tpc.exc = "none" => tpc.modo = "local-whisper"
    /\ tpc.modo = "azure-transcriptions" =>
         tpc.azure.type = "ok" /\ tpc.calls = <<"azure">>

\* A call has returned in mode "local-whisper" after Azure answered 400
\* OperationNotSupported.
C18_Witness ==
  /\ tpc.pc = "returned"
  /\ Configured
  /\ tpc.azure.type = "BadRequestError"
  /\ MentionsNotSupported(tpc.azure)
  /\ tpc.modo = "local-whisper"
  /\ tpc.transcript # <<>>

\* The lexical index and the collection as one value.
Backends == [index |-> cur, points |-> points]

\* The payload the store holds for doc_id, in the mode it is in.
PayloadOf(doc_id) ==
  IF mode = "keywords" THEN docs[doc_id].payload ELSE points[doc_id].payload

\* C19: a call of transcribe_audio that returns has added exactly one
\* document, under a doc_id no document had, whose text is the transcript
\* returned and whose metadata has a non-empty __modo__; a call that raises
\* has added none and leaves the store as it was; until add_document is
\* reached the store stays as it was.
C19_StoreOnlyOnSuccess ==
  /\ tpc.pc \in {"try", "fallback", "finally", "store", "raised"} =>
       Backends = tpc.before
  /\ tpc.pc = "returned" =>
       LET was == DOMAIN tpc.before.index.docs \cup DOMAIN tpc.before.points
       IN  /\ tpc.doc_id \notin was
           /\ StoredIds = was \cup {tpc.doc_id}
           /\ \A d \in was : d \in DOMAIN docs => docs[d] = tpc.before.index.docs[d]
           /\ \A d \in was : d \in DOMAIN points => points[d] = tpc.before.points[d]
           /\ mode = "keywords" => N = tpc.before.index.N + 1
           /\ PayloadOf(tpc.doc_id)["text"] = tpc.transcript
           /\ PayloadOf(tpc.doc_id)["__modo__"] = tpc.modo
           /\ tpc.modo \in {"azure-transcriptions", "local-whisper"}
           /\ tpc.exc = "none"

\* A second call has returned, through the local fallback, on a store that
\* held a document.
C19_Witness ==
  /\ tpc.pc = "returned"
  /\ tpc.before.index.N = 1
  /\ N = 2
  /\ tpc.calls = <<"azure", "local">>
  /\ PayloadOf(tpc.doc_id)["__modo__"] = "local-whisper"

\* C20: the temporary file is gone on every way out of the transcription
\* step (Azure succeeded, the fallback succeeded, the Azure error raised
\* again, the fallback failed), before the function returns or the exception
\* reaches the caller; it exists while the step runs.
C20_TempFileRemoved ==
  /\ tpc.pc \in {"store", "returned", "raised"} => tmp_files = {}
  /\ tpc.pc \in {"try", "fallback", "finally"} => tmp_files = {"tmp"}

\* The exception of a failed local fallback has reached the caller after a
\* failed Azure call.
C20_Witness ==
  /\ tpc.pc = "raised"
  /\ tpc.exc = "RuntimeError"
  /\ tpc.calls = <<"azure", "local">>
  /\ tmp_files = {}

====
